---- MODULE Spec2Model ----
(***************************************************************************)
(* A model of the AbuseIPDB HTTP client: AbuseIpDbApi, its Factory, the    *)
(* libcurl easy handle it drives and the resources it allocates per call.  *)
(* Strings are sequences of pieces (single characters where the code works *)
(* on characters, whole literals where it only copies them).               *)
(***************************************************************************)
EXTENDS Integers, Sequences, FiniteSets, TLC

\* ------------------------------------------------------------------ bounds
\* Header lists / forms / FILE handles the client may leave allocated before
\* the leaking operations are no longer started.
MaxLeaks == 2
\* Chunks handed to the write callback when it is exercised on its own.
MaxChunks == 3

\* ------------------------------------------------------------ input domains
Keys == {"k1"}
IpAddresses == {<<"1", ".", "2">>}
Comments == {<<"a", " ", "b">>}
Networks == {<<"1", ".", "0">>}
SubnetSizes == {24}
\* 0: the empty set; 3: two defined flags; 2^22: the last defined flag;
\* 2^23: an undefined bit alone; 2^23 + 1: an undefined bit with a defined one.
CategoryValues == {0, 3, 4194304, 8388608, 8388609}
\* BlackListOptions: onlyCountries and exceptCountries (limit and
\* minimumConfidence keep their defaults)
BlackListOptions ==
    {[onlyCountries |-> <<>>, exceptCountries |-> <<>>],
     [onlyCountries |-> <<>>, exceptCountries |-> <<<<"D", "E">>>>],
     [onlyCountries |-> <<<<"U", "S">>>>, exceptCountries |-> <<>>],
     [onlyCountries |-> <<<<"U", "S">>, <<"C", "A">>>>, exceptCountries |-> <<<<"D", "E">>>>]}
\* Bit positions the category sets decoded on their own are built from, and
\* the chunks the write callback is exercised with.
ProbeBits == {0, 1, 2, 21, 22}
ProbeChunks == {<<>>, <<" ", " ">>, <<"\n">>, <<"d", "a">>, <<" ", "x">>}
\* The file system bulkReport looks at: path |-> what is there.
FileSystem ==
    [p \in {"missing.csv", "dir", "locked.csv", "ok.csv"} |->
        CASE p = "missing.csv" -> "missing"
          [] p = "dir" -> "directory"
          [] p = "locked.csv" -> "unreadable"
          [] p = "ok.csv" -> "regular"]
Paths == DOMAIN FileSystem

\* ---------------------------------------------------------------- strings
RECURSIVE Concat(_)
Concat(ss) == IF ss = <<>> THEN <<>> ELSE Head(ss) \o Concat(Tail(ss))

Digits == <<"0", "1", "2", "3", "4", "5", "6", "7", "8", "9">>
DigitSet == {Digits[i] : i \in 1..10}

\* std::to_string of a non-negative integer
RECURSIVE to_string(_)
to_string(n) ==
    IF n < 10 THEN <<Digits[n + 1]>>
    ELSE to_string(n \div 10) \o <<Digits[(n % 10) + 1]>>

DigitValue(c) == CHOOSE d \in 0..9 : Digits[d + 1] = c

IsSpace(c) == c \in {" ", "\n", "\t", "\r"}

\* curl_easy_escape: every byte outside A-Z a-z 0-9 - . _ ~ becomes %XX
Unreserved ==
    DigitSet \cup {"a", "b", "x", "A", "C", "D", "E", "S", "U", "-", ".", "_", "~"}
PercentCode(c) ==
    CASE c = " " -> "%20"
      [] c = "," -> "%2C"
      [] c = "/" -> "%2F"

RECURSIVE getEscapedString(_)
getEscapedString(s) ==
    IF s = <<>> THEN <<>>
    ELSE (IF Head(s) \in Unreserved THEN <<Head(s)>> ELSE <<PercentCode(Head(s))>>)
         \o getEscapedString(Tail(s))

\* ------------------------------------------------------------------- JSON
\* The part of nlohmann::json::parse the model's bodies exercise: optional
\* whitespace, one integer literal (no leading zero), optional whitespace.
RECURSIVE StripLeft(_)
StripLeft(s) == IF s # <<>> /\ IsSpace(Head(s)) THEN StripLeft(Tail(s)) ELSE s

RECURSIVE StripRight(_)
StripRight(s) ==
    IF s # <<>> /\ IsSpace(s[Len(s)]) THEN StripRight(SubSeq(s, 1, Len(s) - 1)) ELSE s

RECURSIVE FromDigits(_)
FromDigits(s) ==
    IF s = <<>> THEN 0
    ELSE 10 * FromDigits(SubSeq(s, 1, Len(s) - 1)) + DigitValue(s[Len(s)])

JsonNull == [kind |-> "null", num |-> 0, text |-> <<>>]
JsonNumber(n) == [kind |-> "number", num |-> n, text |-> <<>>]
TextResult(s) == [kind |-> "string", num |-> 0, text |-> s]
InstanceResult(i) == [kind |-> "instance", num |-> i, text |-> <<>>]
NoResult == [kind |-> "none", num |-> 0, text |-> <<>>]

\* A mutation of json::parse: what follows the first value is not looked at.
RECURSIVE DigitPrefix(_)
DigitPrefix(s) ==
    IF s # <<>> /\ Head(s) \in DigitSet THEN <<Head(s)>> \o DigitPrefix(Tail(s)) ELSE <<>>

ParseJson_Prefix(s) ==
    LET t == DigitPrefix(StripLeft(s))
    IN  IF t # <<>> /\ (Len(t) > 1 => t[1] # "0")
        THEN [ok |-> TRUE, doc |-> JsonNumber(FromDigits(t))]
        ELSE [ok |-> FALSE, doc |-> JsonNull]

\* json::parse: [ok |-> parsed without throwing, doc |-> the document]
ParseJson(s) ==
    LET t == StripRight(StripLeft(s))
        valid == /\ t # <<>>
                 /\ \A i \in 1..Len(t) : t[i] \in DigitSet
                 /\ (Len(t) > 1 => t[1] # "0")
    IN  IF valid THEN [ok |-> TRUE, doc |-> JsonNumber(FromDigits(t))]
        ELSE [ok |-> FALSE, doc |-> JsonNull]

\* json::dump(2) of a document ParseJson produces
Dump(doc) == IF doc.kind = "number" THEN to_string(doc.num) ELSE <<"n", "u", "l", "l">>

\* ------------------------------------------------------------- categories
RECURSIVE Pow2(_)
Pow2(n) == IF n = 0 THEN 1 ELSE 2 * Pow2(n - 1)

BitSet(val, i) == (val \div Pow2(i)) % 2 = 1

WireCodes == [i \in 1..23 |-> i]

\* A mutation of getReportCategories: the first test is inverted.
getReportCategories_Inverted(values) ==
    SelectSeq(WireCodes, LAMBDA c : IF c = 1 THEN ~BitSet(values, 0) ELSE BitSet(values, c - 1))

\* A mutation of getReportCategories: the last test pushes 22 again.
getReportCategories_Repeat22(values) ==
    LET codes == SelectSeq(WireCodes, LAMBDA c : BitSet(values, c - 1))
    IN  [i \in 1..Len(codes) |-> IF codes[i] = 23 THEN 22 ELSE codes[i]]

\* A mutation of getReportCategories: a 24th test, for bit 23.
getReportCategories_Bit23(values) ==
    SelectSeq([i \in 1..24 |-> i], LAMBDA c : BitSet(values, c - 1))

getReportCategories(values) ==
    SelectSeq(WireCodes, LAMBDA c : BitSet(values, c - 1))

\* operator|(ReportCategories, ReportCategories): bitwise or of the uint64_t
RECURSIVE BitOr(_, _)
BitOr(a, b) ==
    IF a = 0 THEN b
    ELSE IF b = 0 THEN a
    ELSE 2 * BitOr(a \div 2, b \div 2) + (IF a % 2 = 1 \/ b % 2 = 1 THEN 1 ELSE 0)

RECURSIVE SumOfBits(_)
SumOfBits(S) ==
    IF S = {} THEN 0
    ELSE LET i == CHOOSE x \in S : TRUE IN Pow2(i) + SumOfBits(S \ {i})

ProbeCategories == {SumOfBits(S) : S \in SUBSET ProbeBits}

\* std::accumulate(next(begin), end, to_string(list[0]), a + "," + to_string(b))
RECURSIVE JoinCategories(_)
JoinCategories(list) ==
    IF Len(list) = 1 THEN to_string(list[1])
    ELSE JoinCategories(SubSeq(list, 1, Len(list) - 1)) \o <<",">> \o to_string(list[Len(list)])

\* ------------------------------------------------------------ write callback
\* handleCurlWrite: the accumulator after one chunk
\* A mutation of handleCurlWrite: any_of in place of all_of.
handleCurlWrite_AnySpace(str, output) ==
    IF str = <<>> \/ \E i \in 1..Len(str) : IsSpace(str[i]) THEN output
    ELSE output \o str

handleCurlWrite(str, output) ==
    IF str = <<>> \/ \A i \in 1..Len(str) : IsSpace(str[i]) THEN output
    ELSE output \o str

\* handleCurlWrite: the size it returns to libcurl (dataLength * memBufSize,
\* the length of the chunk)
handleCurlWriteReturn(str) == Len(str)

RECURSIVE WriteAll(_, _)
WriteAll(chunks, output) ==
    IF chunks = <<>> THEN output
    ELSE WriteAll(Tail(chunks), handleCurlWrite(Head(chunks), output))

\* ------------------------------------------------------------ the easy handle
\* The options of a CURL easy handle the client touches. httpreq is libcurl's
\* request kind, switched by CURLOPT_POSTFIELDS and CURLOPT_MIMEPOST.
CurlDefaults ==
    [url |-> <<>>, customrequest |-> "", httpreq |-> "GET", postfields |-> <<>>,
     mimepost |-> 0, httpheader |-> 0, writefunction |-> "fwrite", writedata |-> "stdout"]

\* curl_easy_reset
curl_easy_reset(curl) == CurlDefaults

NoRequest == [method |-> "", url |-> <<>>, body |-> "none", fields |-> <<>>,
              form |-> <<>>, headers |-> <<>>]

\* The request curl_easy_perform sends for a handle: what the options in
\* effect on the handle at that moment select.
RequestOf(curl, lists, forms) ==
    [method |-> IF curl.customrequest # "" THEN curl.customrequest
                ELSE IF curl.httpreq = "GET" THEN "GET" ELSE "POST",
     url |-> curl.url,
     body |-> CASE curl.httpreq = "POST_MIME" -> "multipart"
                [] curl.httpreq = "POST" -> "fields"
                [] OTHER -> "none",
     fields |-> IF curl.httpreq = "POST" THEN curl.postfields ELSE <<>>,
     form |-> IF curl.httpreq = "POST_MIME" /\ curl.mimepost \in DOMAIN forms
              THEN forms[curl.mimepost] ELSE <<>>,
     headers |-> IF curl.httpheader \in DOMAIN lists THEN lists[curl.httpheader] ELSE <<>>]

\* The response accumulator after curl_easy_perform delivered the chunks.
ResponseAfter(curl, chunks, response) ==
    IF curl.writefunction = "handleCurlWrite" /\ curl.writedata = "m_curlResponse"
    THEN WriteAll(chunks, response) ELSE response

\* setHeaders: the list it builds (otherHeaders in std::map order)
setHeaders(apiKey, otherHeaders) ==
    <<<<"Key", apiKey>>, <<"accept", "application/json">>>> \o otherHeaders

\* The least identifier not allocated (a fresh allocation)
Fresh(allocated) == CHOOSE i \in 1..(Cardinality(allocated) + 1) :
                        i \notin allocated /\ \A j \in 1..(i - 1) : j \in allocated

\* ------------------------------------------------------------------ state
VARIABLES
    factoryKey,   \* Factory::m_apiKey
    m_instance,   \* Factory::m_instance: 0 (nullptr) or the identity of the client
    constructed,  \* how many AbuseIpDbApi objects the factory has constructed
    api,          \* the fields of the client the factory holds
    slists,       \* allocated curl_slist header lists: identifier |-> items
    mimes,        \* allocated curl_mime forms: identifier |-> parts
    openFiles,    \* FILE handles opened with fopen and not closed
    last,         \* what the last operation did and gave back to its caller
    probe         \* a free function applied on its own: its inputs and its results

vars == <<factoryKey, m_instance, constructed, api, slists, mimes, openFiles, last, probe>>

NoArgs == [ip |-> <<>>, categories |-> 0, comment |-> <<>>, csv |-> "",
           only |-> <<>>, except |-> <<>>, override |-> FALSE]

NoCall == [op |-> "none", args |-> NoArgs, outcome |-> "none", error |-> "",
           result |-> NoResult, performs |-> 0, request |-> NoRequest,
           decoded |-> FALSE, retCode |-> "", existed |-> FALSE, previous |-> 0,
           replaced |-> FALSE, dirty |-> FALSE, started |-> <<>>, chunks |-> <<>>,
           phases |-> <<>>, handle |-> 0]

NoProbe == [fn |-> "none", a |-> 0, b |-> 0, codesA |-> <<>>, codesB |-> <<>>,
            codesAB |-> <<>>, chunks |-> <<>>, output |-> <<>>, consumed |-> <<>>]

\* A mutation of initialiseCurl: m_curlResponse is not cleared.
initialiseCurl_NoClear(a) ==
    LET options == IF ~a.m_isInitialised THEN CurlDefaults ELSE a.m_curl
    IN  [a EXCEPT !.m_isInitialised = TRUE,
                  !.handle = IF ~a.m_isInitialised THEN a.easyInits + 1 ELSE a.handle,
                  !.easyInits = IF ~a.m_isInitialised THEN a.easyInits + 1
                                ELSE a.easyInits,
                  !.m_curl = [options EXCEPT !.writefunction = "handleCurlWrite",
                                             !.writedata = "m_curlResponse"],
                  !.m_curlResponseHeaders = <<>>]

\* A mutation of initialiseCurl: m_isInitialised is not tested, every call
\* takes a new handle from curl_easy_init.
initialiseCurl_AlwaysInit(a) ==
    [a EXCEPT !.m_isInitialised = TRUE,
              !.handle = a.easyInits + 1,
              !.easyInits = a.easyInits + 1,
              !.m_curl = [CurlDefaults EXCEPT !.writefunction = "handleCurlWrite",
                                              !.writedata = "m_curlResponse"],
              !.m_curlResponse = <<>>,
              !.m_curlResponseHeaders = <<>>]

\* AbuseIpDbApi::initialiseCurl
initialiseCurl(a) ==
    LET options == IF ~a.m_isInitialised THEN CurlDefaults ELSE a.m_curl
    IN  [a EXCEPT !.m_isInitialised = TRUE,
                  !.handle = IF ~a.m_isInitialised THEN a.easyInits + 1 ELSE a.handle,
                  !.easyInits = IF ~a.m_isInitialised THEN a.easyInits + 1
                                ELSE a.easyInits,
                  !.m_curl = [options EXCEPT !.writefunction = "handleCurlWrite",
                                             !.writedata = "m_curlResponse"],
                  !.m_curlResponse = <<>>,
                  !.m_curlResponseHeaders = <<>>]

\* The members of a client before its constructor ran. m_curl holds the
\* options of the easy handle, handle its identity (0: nullptr); easyInits and
\* easyCleanups count the curl_easy_init and curl_easy_cleanup calls of the
\* client, destroyed tells that its destructor ran.
NoClient ==
    [m_apiKey |-> "", m_isInitialised |-> FALSE, m_curl |-> CurlDefaults,
     m_curlResponse |-> <<>>, m_curlResponseHeaders |-> <<>>,
     handle |-> 0, easyInits |-> 0, easyCleanups |-> 0, destroyed |-> FALSE]

\* A mutation of the constructor: m_apiKey is left empty.
NewClient_NoKey(apiKey) == initialiseCurl(NoClient)

\* AbuseIpDbApi::AbuseIpDbApi(apiKey, logger)
NewClient(apiKey) == initialiseCurl([NoClient EXCEPT !.m_apiKey = apiKey])

Init ==
    /\ factoryKey \in Keys
    /\ m_instance = 0
    /\ constructed = 0
    /\ api = NoClient
    /\ slists = <<>>
    /\ mimes = <<>>
    /\ openFiles = 0
    /\ last = NoCall
    /\ probe = NoProbe

\* ---------------------------------------------------------------- factory
\* A mutation of the replacement test: the key comparison is dropped.
KeyChanged_OverrideOnly(instanceKey, key, override) == override

\* Factory::getInstance, the test guarding m_instance.reset(...)
KeyChanged(instanceKey, key, override) == instanceKey # key /\ override

\* Factory::getInstance(override)
getInstance(override) ==
    /\ ~api.destroyed
    /\ IF m_instance = 0
       THEN /\ m_instance' = constructed + 1
            /\ constructed' = constructed + 1
            /\ api' = NewClient(factoryKey)
            /\ last' = [NoCall EXCEPT !.op = "getInstance",
                                      !.args = [NoArgs EXCEPT !.override = override],
                                      !.outcome = "returned",
                                      !.result = InstanceResult(constructed + 1)]
       ELSE /\ IF KeyChanged(api.m_apiKey, factoryKey, override)
               THEN /\ m_instance' = constructed + 1
                    /\ constructed' = constructed + 1
                    /\ api' = NewClient(factoryKey)
               ELSE UNCHANGED <<m_instance, constructed, api>>
            /\ last' = [NoCall EXCEPT !.op = "getInstance",
                                      !.args = [NoArgs EXCEPT !.override = override],
                                      !.outcome = "raised",
                                      !.error = "runtime_error: API key mismatch!",
                                      !.existed = TRUE,
                                      !.previous = m_instance,
                                      !.replaced =
                                          KeyChanged(api.m_apiKey, factoryKey, override)]
    /\ UNCHANGED <<factoryKey, slists, mimes, openFiles, probe>>

\* AbuseIpDbApi::~AbuseIpDbApi, run when the last owner of the client lets go
\* of it
destroy ==
    /\ m_instance # 0
    /\ ~api.destroyed
    /\ api' = [api EXCEPT !.easyCleanups = @ + 1, !.destroyed = TRUE]
    /\ UNCHANGED <<factoryKey, m_instance, constructed, slists, mimes, openFiles,
                   last, probe>>

\* ----------------------------------------------------------- the transport
\* What curl_easy_perform may give back: its return code and the chunks it
\* handed to the write callback before returning.
Transport ==
    {[retCode |-> "CURLE_OK", chunks |-> <<>>],
     [retCode |-> "CURLE_OK", chunks |-> << <<"1">> >>],
     [retCode |-> "CURLE_OK", chunks |-> << <<"1">>, <<"2">> >>],
     [retCode |-> "CURLE_OK", chunks |-> << <<"x">> >>],
     [retCode |-> "CURLE_OK", chunks |-> << <<" ">>, <<"1", " ">>, <<>> >>],
     [retCode |-> "CURLE_OK", chunks |-> << <<"1">>, <<" ">>, <<"x">> >>],
     [retCode |-> "CURLE_COULDNT_CONNECT", chunks |-> <<>>],
     [retCode |-> "CURLE_PARTIAL_FILE", chunks |-> << <<"1">> >>]}

Alloc(f, id, v) == [i \in (DOMAIN f) \cup {id} |-> IF i = id THEN v ELSE f[i]]

\* curl_slist_free_all
curl_slist_free_all(f, id) == [i \in (DOMAIN f) \ {id} |-> f[i]]

\* ------------------------------------------------------------- the decoder
\* A mutation of the tail of the JSON endpoints: the return code is not
\* tested.
DecodeJson_ParseAlways(retCode, response) ==
    [outcome |-> "returned", error |-> "", result |-> ParseJson(response).doc,
     decoded |-> TRUE]

\* The tail of the JSON endpoints: json() on a transport failure, else
\* json::parse with json() for what does not parse.
DecodeJson(retCode, response) ==
    IF retCode # "CURLE_OK"
    THEN [outcome |-> "returned", error |-> "", result |-> JsonNull, decoded |-> FALSE]
    ELSE [outcome |-> "returned", error |-> "", result |-> ParseJson(response).doc,
          decoded |-> TRUE]

\* The tail of getBlackListPlaintext. On a transport failure it executes
\* `return json();` in a function returning std::string: the null document is
\* converted to std::string, and nlohmann::json throws type_error 302 for
\* every document that is not a string.
DecodePlaintext(retCode, response) ==
    IF retCode # "CURLE_OK"
    THEN [outcome |-> "raised", error |-> "json::type_error", result |-> NoResult,
          decoded |-> FALSE]
    ELSE LET parsed == ParseJson(response)
         IN  [outcome |-> "returned", error |-> "",
              result |-> IF parsed.ok THEN TextResult(Dump(parsed.doc))
                         ELSE TextResult(response),
              decoded |-> TRUE]

\* --------------------------------------------------------------- endpoints
MAX_IPS_BASIC_SUB == 100000
DefaultMinimumConfidence == 100

NoPost == [set |-> FALSE, fields |-> <<>>]

\* The body shared by checkBlocked, checkIpAddress, clearIpAddress,
\* getBlackList, getBlackListPlaintext and reportIp once its input is
\* accepted: initialiseCurl, setHeaders, the endpoint's options,
\* curl_easy_perform, curl_slist_free_all, curl_easy_reset, the decoder.
Call(op, args, otherHeaders, url, customrequest, post, plaintext, retCode, chunks) ==
    LET a1 == initialiseCurl(api)
        headers == Fresh(DOMAIN slists)
        lists1 == Alloc(slists, headers, setHeaders(a1.m_apiKey, otherHeaders))
        c1 == [a1.m_curl EXCEPT !.httpheader = headers, !.url = url]
        c2 == IF customrequest # "" THEN [c1 EXCEPT !.customrequest = customrequest] ELSE c1
        c3 == IF post.set THEN [c2 EXCEPT !.postfields = post.fields, !.httpreq = "POST"]
              ELSE c2
        response == ResponseAfter(c3, chunks, a1.m_curlResponse)
        d == IF plaintext THEN DecodePlaintext(retCode, response)
             ELSE DecodeJson(retCode, response)
    IN  /\ api' = [a1 EXCEPT !.m_curl = curl_easy_reset(c3), !.m_curlResponse = response]
        /\ slists' = curl_slist_free_all(lists1, headers)
        /\ last' = [NoCall EXCEPT !.op = op, !.args = args, !.outcome = d.outcome,
                                  !.error = d.error, !.result = d.result,
                                  !.performs = 1,
                                  !.request = RequestOf(c3, lists1, mimes),
                                  !.decoded = d.decoded, !.retCode = retCode,
                                  !.dirty = (api.m_curlResponse # <<>>),
                                  !.started = a1.m_curlResponse,
                                  !.chunks = chunks,
                                  !.phases = <<"Idle", "Configuring", "Executing">>
                                      \o (IF d.decoded THEN <<"Decoding">> ELSE <<>>)
                                      \o <<"Idle">>,
                                  !.handle = a1.handle]
        /\ UNCHANGED <<factoryKey, m_instance, constructed, mimes, openFiles, probe>>

\* The exit of an endpoint that throws after setHeaders and before
\* curl_easy_perform: the list stays allocated and set on the handle.
Throw(op, args, error) ==
    LET a1 == initialiseCurl(api)
        headers == Fresh(DOMAIN slists)
    IN  /\ api' = [a1 EXCEPT !.m_curl.httpheader = headers]
        /\ slists' = Alloc(slists, headers, setHeaders(a1.m_apiKey, <<>>))
        /\ last' = [NoCall EXCEPT !.op = op, !.args = args, !.outcome = "raised",
                                  !.error = error,
                                  !.dirty = (api.m_curlResponse # <<>>),
                                  !.phases = <<"Idle", "Configuring", "Idle">>]
        /\ UNCHANGED <<factoryKey, m_instance, constructed, mimes, openFiles, probe>>

\* AbuseIpDbApi::checkBlocked(networkAddress, subnetSize)
checkBlocked(networkAddress, subnetSize) ==
    /\ m_instance # 0
    /\ ~api.destroyed
    /\ \E t \in Transport : Call("checkBlocked", [NoArgs EXCEPT !.ip = networkAddress], <<>>,
            <<"https://api.abuseipdb.com/api/v2/check-block", "?", "network=">>
                \o getEscapedString(networkAddress \o <<"/">> \o to_string(subnetSize)),
            "", NoPost, FALSE, t.retCode, t.chunks)

\* AbuseIpDbApi::checkIpAddress(ipAddress)
checkIpAddress(ipAddress) ==
    /\ m_instance # 0
    /\ ~api.destroyed
    /\ \E t \in Transport : Call("checkIpAddress", [NoArgs EXCEPT !.ip = ipAddress], <<>>,
            <<"https://api.abuseipdb.com/api/v2/check", "?", "ipAddress=">>
                \o getEscapedString(ipAddress) \o <<"&verbose">>,
            "", NoPost, FALSE, t.retCode, t.chunks)

\* AbuseIpDbApi::clearIpAddress(ipAddress)
clearIpAddress(ipAddress) ==
    /\ m_instance # 0
    /\ ~api.destroyed
    /\ \E t \in Transport : Call("clearIpAddress", [NoArgs EXCEPT !.ip = ipAddress], <<>>,
            <<"https://api.abuseipdb.com/api/v2/clear-address", "?", "ipAddress=">>
                \o getEscapedString(ipAddress) \o <<"&verbose">>,
            "DELETE", NoPost, FALSE, t.retCode, t.chunks)

\* The countryList query parameter of getBlackList and getBlackListPlaintext:
\* std::accumulate(begin, end, string{}) appends the codes to one another.
CountryList(onlyCountries, exceptCountries) ==
    IF Len(onlyCountries) > 0
    THEN <<"onlyCountries=">> \o getEscapedString(Concat(onlyCountries))
    ELSE <<"exceptCountries=">> \o getEscapedString(Concat(exceptCountries))

BlackListQuery(onlyCountries, exceptCountries) ==
    <<"https://api.abuseipdb.com/api/v2/blacklist", "?", "confidenceMinimum=">>
        \o getEscapedString(to_string(DefaultMinimumConfidence))
        \o <<"&", "limit=">> \o getEscapedString(to_string(MAX_IPS_BASIC_SUB))
        \o <<"&">> \o CountryList(onlyCountries, exceptCountries)

\* AbuseIpDbApi::getBlackList(options)
getBlackList(options) ==
    /\ m_instance # 0
    /\ ~api.destroyed
    /\ \E t \in Transport : Call("getBlackList",
            [NoArgs EXCEPT !.only = options.onlyCountries,
                           !.except = options.exceptCountries], <<>>,
            BlackListQuery(options.onlyCountries, options.exceptCountries),
            "", NoPost, FALSE, t.retCode, t.chunks)

\* AbuseIpDbApi::getBlackListPlaintext(options)
getBlackListPlaintext(options) ==
    /\ m_instance # 0
    /\ ~api.destroyed
    /\ \E t \in Transport : Call("getBlackListPlaintext",
            [NoArgs EXCEPT !.only = options.onlyCountries,
                           !.except = options.exceptCountries],
            << <<"Accept", "text/plain">> >>,
            BlackListQuery(options.onlyCountries, options.exceptCountries)
                \o <<"&plaintext">>,
            "", NoPost, TRUE, t.retCode, t.chunks)

\* reportIp's checks of its categories argument, in the order of the code
reportIpCheck(categories) ==
    IF categories = 0 THEN "invalid_argument: categories must be a valid category!"
    ELSE IF Len(getReportCategories(categories)) = 0
         THEN "runtime_error: Failed to parse categories!"
         ELSE "ok"

\* The POST fields reportIp builds
PostParams(ipAddress, categories, comment) ==
    <<"ip=">> \o getEscapedString(ipAddress)
        \o <<"&", "categories=">>
        \o getEscapedString(JoinCategories(getReportCategories(categories)))
        \o <<"&", "comment=">> \o getEscapedString(comment)

\* AbuseIpDbApi::reportIp(ipAddress, categories, comment)
reportIp(ipAddress, categories, comment) ==
    LET args == [NoArgs EXCEPT !.ip = ipAddress, !.categories = categories,
                               !.comment = comment]
    IN  /\ m_instance # 0
        /\ ~api.destroyed
        /\ Cardinality(DOMAIN slists) < MaxLeaks
        /\ IF reportIpCheck(categories) # "ok"
           THEN Throw("reportIp", args, reportIpCheck(categories))
           ELSE \E t \in Transport :
                Call("reportIp", args, <<>>,
                     <<"https://api.abuseipdb.com/api/v2/report">>, "",
                     [set |-> TRUE,
                      fields |-> PostParams(ipAddress, categories, comment)],
                     FALSE, t.retCode, t.chunks)

\* fs::exists, fs::is_regular_file and fopen(csv, "rb") on the file system
exists(csv) == FileSystem[csv] # "missing"
is_regular_file(csv) == FileSystem[csv] \in {"regular", "unreadable"}
fopen(csv) == FileSystem[csv] = "regular"

\* A mutation of bulkReportCheck: the result of fopen is not tested.
bulkReportCheck_NoOpenTest(csv) ==
    IF ~exists(csv) \/ ~is_regular_file(csv)
    THEN "filesystem_error: Csv must be a valid file!"
    ELSE "ok"

\* bulkReport's checks of its csv argument, in the order of the code
bulkReportCheck(csv) ==
    IF ~exists(csv) \/ ~is_regular_file(csv)
    THEN "filesystem_error: Csv must be a valid file!"
    ELSE IF ~fopen(csv)
         THEN "filesystem_error: Failed to open file"
         ELSE "ok"

\* AbuseIpDbApi::bulkReport(csv) once its input is accepted. It frees
\* nothing it allocates and does not reset the handle.
bulkReportSend(csv, retCode, chunks) ==
    LET a1 == initialiseCurl(api)
        headers == Fresh(DOMAIN slists)
        lists1 == Alloc(slists, headers, setHeaders(a1.m_apiKey, <<>>))
        form == Fresh(DOMAIN mimes)
        forms1 == Alloc(mimes, form, << <<"csv", csv>>, <<"submit", "send">> >>)
        c1 == [a1.m_curl EXCEPT !.httpheader = headers,
                                !.url = <<"https://api.abuseipdb.com/api/v2/bulk-report">>,
                                !.customrequest = "POST",
                                !.mimepost = form,
                                !.httpreq = "POST_MIME"]
        response == ResponseAfter(c1, chunks, a1.m_curlResponse)
        d == DecodeJson(retCode, response)
    IN  /\ api' = [a1 EXCEPT !.m_curl = c1, !.m_curlResponse = response]
        /\ slists' = lists1
        /\ mimes' = forms1
        /\ openFiles' = openFiles + 1
        /\ last' = [NoCall EXCEPT !.op = "bulkReport", !.args = [NoArgs EXCEPT !.csv = csv],
                                  !.outcome = d.outcome, !.error = d.error,
                                  !.result = d.result, !.performs = 1,
                                  !.request = RequestOf(c1, lists1, forms1),
                                  !.decoded = d.decoded, !.retCode = retCode,
                                  !.dirty = (api.m_curlResponse # <<>>),
                                  !.started = a1.m_curlResponse,
                                  !.chunks = chunks,
                                  !.phases = <<"Idle", "Configuring", "Executing">>
                                      \o (IF d.decoded THEN <<"Decoding">> ELSE <<>>)
                                      \o <<"Idle">>,
                                  !.handle = a1.handle]
        /\ UNCHANGED <<factoryKey, m_instance, constructed, probe>>

\* AbuseIpDbApi::bulkReport(csv)
bulkReport(csv) ==
    /\ m_instance # 0
    /\ ~api.destroyed
    /\ Cardinality(DOMAIN slists) < MaxLeaks
    /\ IF bulkReportCheck(csv) # "ok"
       THEN Throw("bulkReport", [NoArgs EXCEPT !.csv = csv], bulkReportCheck(csv))
       ELSE \E t \in Transport : bulkReportSend(csv, t.retCode, t.chunks)

\* ------------------------------------------------------------ specification
Next ==
    \/ \E override \in BOOLEAN : getInstance(override)
    \/ destroy
    \/ \E csv \in Paths : bulkReport(csv)
    \/ \E n \in Networks, sz \in SubnetSizes : checkBlocked(n, sz)
    \/ \E ip \in IpAddresses : checkIpAddress(ip)
    \/ \E ip \in IpAddresses : clearIpAddress(ip)
    \/ \E options \in BlackListOptions : getBlackList(options)
    \/ \E options \in BlackListOptions : getBlackListPlaintext(options)
    \/ \E ip \in IpAddresses, c \in CategoryValues, cm \in Comments : reportIp(ip, c, cm)

Spec == Init /\ [][Next]_vars

\* The free functions on their own: getReportCategories on two category sets
\* and on their union, handleCurlWrite on the chunks of one transfer, one
\* chunk at a time.
decodeCategories(a, b) ==
    /\ probe.fn = "none"
    /\ probe' = [NoProbe EXCEPT !.fn = "getReportCategories", !.a = a, !.b = b,
                                !.codesA = getReportCategories(a),
                                !.codesB = getReportCategories(b),
                                !.codesAB = getReportCategories(BitOr(a, b))]
    /\ UNCHANGED <<factoryKey, m_instance, constructed, api, slists, mimes, openFiles,
                   last>>

deliverChunk(chunk) ==
    /\ probe.fn \in {"none", "handleCurlWrite"}
    /\ Len(probe.chunks) < MaxChunks
    /\ probe' = [probe EXCEPT !.fn = "handleCurlWrite",
                              !.chunks = Append(probe.chunks, chunk),
                              !.output = handleCurlWrite(chunk, probe.output),
                              !.consumed = Append(probe.consumed,
                                                  handleCurlWriteReturn(chunk))]
    /\ UNCHANGED <<factoryKey, m_instance, constructed, api, slists, mimes,
                   openFiles, last>>

NextFunctions ==
    \/ \E a \in ProbeCategories, b \in ProbeCategories : decodeCategories(a, b)
    \/ \E chunk \in ProbeChunks : deliverChunk(chunk)

SpecFunctions == Init /\ [][NextFunctions]_vars

\* ------------------------------------------------------------------ claims
Endpoints == {"bulkReport", "checkBlocked", "checkIpAddress", "clearIpAddress",
              "getBlackList", "getBlackListPlaintext", "reportIp"}

\* C1: every getInstance call on a factory that already holds an instance
\* returns that same instance, for either value of override, and does not
\* raise.
C1_SameInstanceReturned ==
    (last.op = "getInstance" /\ last.existed) =>
        /\ last.outcome = "returned"
        /\ last.result = InstanceResult(last.previous)
        /\ m_instance = last.previous

\* The method, body kind and body each endpoint's documentation gives it.
ExpectedMethod(op) ==
    CASE op \in {"reportIp", "bulkReport"} -> "POST"
      [] op = "clearIpAddress" -> "DELETE"
      [] OTHER -> "GET"

ExpectedBody(op) ==
    CASE op = "reportIp" -> "fields"
      [] op = "bulkReport" -> "multipart"
      [] OTHER -> "none"

\* C2: the request an endpoint call sends has the method and body of that
\* endpoint and its arguments alone, whatever calls came before: nothing an
\* earlier call set on the handle is still in effect.
C2_RequestFromCallOnly ==
    (last.op \in Endpoints /\ last.performs = 1) =>
        /\ last.request.method = ExpectedMethod(last.op)
        /\ last.request.body = ExpectedBody(last.op)
        /\ last.request.fields =
              (IF last.op = "reportIp"
               THEN PostParams(last.args.ip, last.args.categories, last.args.comment)
               ELSE <<>>)
        /\ last.request.form =
              (IF last.op = "bulkReport"
               THEN << <<"csv", last.args.csv>>, <<"submit", "send">> >>
               ELSE <<>>)
        /\ last.request.headers =
              setHeaders(factoryKey,
                         IF last.op = "getBlackListPlaintext"
                         THEN << <<"Accept", "text/plain">> >> ELSE <<>>)

\* C3: a call whose transport execution ends with a non-success code returns
\* the empty sentinel, without decoding the body and without raising.
C3_FailureGivesSentinel ==
    (last.op \in Endpoints /\ last.performs = 1 /\ last.retCode # "CURLE_OK") =>
        /\ last.outcome = "returned"
        /\ ~last.decoded
        /\ last.result \in {JsonNull, TextResult(<<>>)}

\* C4: after every endpoint call, whatever its outcome, no header list is
\* allocated and none is set on the handle.
C4_HeadersReleased ==
    last.op \in Endpoints => (DOMAIN slists = {} /\ api.m_curl.httpheader = 0)

RECURSIVE JoinWithCommas(_)
JoinWithCommas(list) ==
    IF list = <<>> THEN <<>>
    ELSE IF Len(list) = 1 THEN list[1]
    ELSE list[1] \o <<",">> \o JoinWithCommas(Tail(list))

\* The pieces of a URL after the piece `name`, up to the next parameter
RECURSIVE UpToAmpersand(_)
UpToAmpersand(s) ==
    IF s = <<>> \/ Head(s) \in {"&", "&plaintext", "&verbose"} THEN <<>>
    ELSE <<Head(s)>> \o UpToAmpersand(Tail(s))

HasParam(url, name) == \E i \in 1..Len(url) : url[i] = name

ParamValue(url, name) ==
    LET i == CHOOSE k \in 1..Len(url) : url[k] = name
    IN  UpToAmpersand(SubSeq(url, i + 1, Len(url)))

\* C5: a blacklist request with a non-empty onlyCountries carries the
\* parameter onlyCountries with the codes joined by commas as its (escaped)
\* value, and no exceptCountries parameter.
C5_OnlyCountriesJoined ==
    (last.op \in {"getBlackList", "getBlackListPlaintext"} /\ last.args.only # <<>>) =>
        /\ HasParam(last.request.url, "onlyCountries=")
        /\ ParamValue(last.request.url, "onlyCountries=")
              = getEscapedString(JoinWithCommas(last.args.only))
        /\ ~HasParam(last.request.url, "exceptCountries=")

\* C6: a step replaces the instance a factory holds only if it is a
\* getInstance call with override set on an instance whose key differs from
\* the factory's; every other step on an existing instance leaves the
\* instance, and the number of clients constructed, as they were.
C6_ReplacedOnlyOnKeyChangeAndOverride ==
    [][(m_instance # 0 /\ (m_instance' # m_instance \/ constructed' # constructed)) =>
          (/\ last'.op = "getInstance"
           /\ last'.args.override
           /\ api.m_apiKey # factoryKey)]_vars

\* A getInstance call with override set found an instance and left it alone.
C6_Witness ==
    /\ last.op = "getInstance"
    /\ last.existed
    /\ last.args.override
    /\ m_instance = last.previous

\* C8: a factory never holds or has built more than one client: once
\* getInstance has been called, exactly one client has been constructed and it
\* is the one held, whether the calls returned or raised.
C8_OneClient ==
    /\ constructed <= 1
    /\ (m_instance # 0 <=> constructed = 1)
    /\ (last.op = "getInstance" => (constructed = 1 /\ m_instance = 1))

\* A getInstance call raised, and still one client exists.
C8_Witness ==
    /\ last.op = "getInstance"
    /\ last.outcome = "raised"
    /\ constructed = 1

\* C9: reportIp with the empty category set raises invalid_argument and
\* executes no request; getReportCategories of the empty set is empty.
C9_EmptyCategoriesRejected ==
    /\ getReportCategories(0) = <<>>
    /\ (last.op = "reportIp" /\ last.args.categories = 0) =>
          /\ last.outcome = "raised"
          /\ last.error = "invalid_argument: categories must be a valid category!"
          /\ last.performs = 0
          /\ last.request = NoRequest

C9_Witness ==
    /\ last.op = "reportIp"
    /\ last.args.categories = 0
    /\ last.outcome = "raised"

\* C10: bulkReport with a path that is missing, is not a regular file or
\* cannot be opened raises filesystem_error and executes no request.
C10_BadCsvRejected ==
    (last.op = "bulkReport" /\ FileSystem[last.args.csv] # "regular") =>
        /\ last.outcome = "raised"
        /\ last.error \in {"filesystem_error: Csv must be a valid file!",
                           "filesystem_error: Failed to open file"}
        /\ last.performs = 0
        /\ last.request = NoRequest

C10_Witness ==
    /\ last.op = "bulkReport"
    /\ FileSystem[last.args.csv] = "unreadable"
    /\ last.outcome = "raised"
    /\ last.error = "filesystem_error: Failed to open file"


\* The wire codes of the defined flags set in a value: bit i gives i + 1
CodesOf(value) == {i + 1 : i \in {j \in 0..22 : BitSet(value, j)}}

Elements(seq) == {seq[i] : i \in 1..Len(seq)}

StrictlyAscending(seq) == \A i \in 1..Len(seq), j \in 1..Len(seq) : i < j => seq[i] < seq[j]

\* C11: getReportCategories gives the wire codes of the flags set (bit i as
\* i + 1), strictly ascending and so without duplicates, and for a | b the
\* sorted union of what it gives for a and for b.
C11_CodesAscendingAndUnion ==
    probe.fn = "getReportCategories" =>
        /\ StrictlyAscending(probe.codesA) /\ Elements(probe.codesA) = CodesOf(probe.a)
        /\ StrictlyAscending(probe.codesB) /\ Elements(probe.codesB) = CodesOf(probe.b)
        /\ StrictlyAscending(probe.codesAB)
        /\ Elements(probe.codesAB) = Elements(probe.codesA) \cup Elements(probe.codesB)

\* DnsCompromise | DnsPoisoning with DnsPoisoning | IotTargeted
C11_Witness ==
    /\ probe.fn = "getReportCategories"
    /\ probe.a = 3
    /\ probe.b = 4194306
    /\ probe.codesAB = <<1, 2, 23>>

Kept(chunk) == chunk # <<>> /\ \E i \in 1..Len(chunk) : ~IsSpace(chunk[i])

C13_AccumulatorFresh ==
    (last.op \in Endpoints /\ last.performs = 1) =>
        /\ last.started = <<>>
        /\ api.m_curlResponse = Concat(SelectSeq(last.chunks, Kept))

\* A call received bytes on a client whose accumulator an earlier call had
\* left filled.
C13_Witness ==
    /\ last.op \in Endpoints
    /\ last.performs = 1
    /\ last.dirty
    /\ api.m_curlResponse # <<>>

\* C14: getBlackListPlaintext, on a successful transfer whose captured body
\* is not JSON, returns the bytes the transport delivered, verbatim.
C14_DeliveredBytesVerbatim ==
    (/\ last.op = "getBlackListPlaintext"
     /\ last.retCode = "CURLE_OK"
     /\ ~ParseJson(api.m_curlResponse).ok) =>
        /\ last.outcome = "returned"
        /\ last.result = TextResult(Concat(last.chunks))

IsIntegerLiteral(t) ==
    /\ t # <<>>
    /\ \A i \in 1..Len(t) : t[i] \in DigitSet
    /\ (Len(t) > 1 => t[1] # "0")

\* C15: a JSON endpoint whose transfer succeeded returns, without raising,
\* the document of the whole captured body, or the empty document when the
\* body is not a JSON text; never the document of a part of it.
C15_WholeDocumentOrEmpty ==
    (/\ last.op \in Endpoints \ {"getBlackListPlaintext"}
     /\ last.performs = 1
     /\ last.retCode = "CURLE_OK") =>
        LET body == StripRight(StripLeft(api.m_curlResponse))
        IN  /\ last.outcome = "returned"
            /\ last.decoded
            /\ IF IsIntegerLiteral(body)
               THEN last.result.kind = "number" /\ to_string(last.result.num) = body
               ELSE last.result = JsonNull

\* The body 12, received as 1 and 2, gives the document 12.
C15_Witness ==
    /\ last.op = "checkIpAddress"
    /\ last.retCode = "CURLE_OK"
    /\ last.chunks = << <<"1">>, <<"2">> >>
    /\ last.result = JsonNumber(12)

\* C16: a client takes one easy handle, at construction, every call uses
\* that handle, and the handle is released once, by the destructor.
C16_OneHandle ==
    /\ m_instance # 0 =>
          /\ api.easyInits = 1
          /\ api.handle = 1
          /\ api.easyCleanups = (IF api.destroyed THEN 1 ELSE 0)
    /\ last.performs = 1 => last.handle = 1

\* A client that served a call and was destroyed.
C16_Witness ==
    /\ api.destroyed
    /\ api.easyCleanups = 1
    /\ last.performs = 1

\* What the endpoint's documentation accepts as input
ValidInput(op, args) ==
    CASE op = "reportIp" -> args.categories # 0 /\ CodesOf(args.categories) # {}
      [] op = "bulkReport" -> FileSystem[args.csv] = "regular"
      [] OTHER -> TRUE

\* C17: a call whose input is accepted executes one request, also when the
\* transport or the decoding fails, and a call whose input is rejected
\* executes none.
C17_OneRequestPerAcceptedCall ==
    last.op \in Endpoints =>
        last.performs = (IF ValidInput(last.op, last.args) THEN 1 ELSE 0)

\* A call whose transport failed executed one request.
C17_Witness ==
    /\ last.op \in Endpoints
    /\ last.retCode = "CURLE_COULDNT_CONNECT"
    /\ last.performs = 1

\* C18: bits outside the 23 flags give no wire code, alone or with defined
\* flags, and reportIp with only such bits set raises before any request.
C18_UndefinedBitsIgnored ==
    /\ \A c \in CategoryValues :
          /\ Elements(getReportCategories(c)) = CodesOf(c)
          /\ getReportCategories(c) = getReportCategories(c % 8388608)
    /\ (last.op = "reportIp" /\ last.args.categories # 0
            /\ last.args.categories % 8388608 = 0) =>
          /\ last.outcome = "raised"
          /\ last.error = "runtime_error: Failed to parse categories!"
          /\ last.performs = 0

C18_Witness ==
    /\ last.op = "reportIp"
    /\ last.args.categories = 8388608
    /\ last.outcome = "raised"
    /\ last.performs = 0

\* C19: a call goes Idle, Configuring, Executing, Decoding, Idle, without
\* Decoding when the transport failed and without Executing and Decoding
\* when its input is rejected; whatever it gave back, the client is Idle
\* after it and a next call can start.
C19_PhasesInOrder ==
    last.op \in Endpoints =>
        /\ last.phases =
              (IF ~ValidInput(last.op, last.args)
               THEN <<"Idle", "Configuring", "Idle">>
               ELSE IF last.retCode # "CURLE_OK"
                    THEN <<"Idle", "Configuring", "Executing", "Idle">>
                    ELSE <<"Idle", "Configuring", "Executing", "Decoding", "Idle">>)
        /\ ~api.destroyed => ENABLED (\E ip \in IpAddresses : checkIpAddress(ip))

\* A call that raised after its transport execution left the client Idle.
C19_Witness ==
    /\ last.op = "getBlackListPlaintext"
    /\ last.outcome = "raised"
    /\ last.phases = <<"Idle", "Configuring", "Executing", "Idle">>

\* C20: the instance a factory holds has the factory's key, so getInstance
\* never takes its replacement branch and the instance stays the first one
\* constructed.
C20_InstanceKeyIsFactoryKey ==
    /\ m_instance # 0 => (api.m_apiKey = factoryKey /\ m_instance = 1)
    /\ ~last.replaced

\* getInstance with override set found the instance with the factory's key.
C20_Witness ==
    /\ last.op = "getInstance"
    /\ last.existed
    /\ last.args.override
    /\ api.m_apiKey = factoryKey
    /\ ~last.replaced

\* What the call gives back when libcurl hands the same bytes to the write
\* callback as one chunk
AsOneChunk(op, retCode, chunks) ==
    LET whole == WriteAll(<<Concat(chunks)>>, <<>>)
    IN  [response |-> whole,
         decoded |-> IF op = "getBlackListPlaintext"
                     THEN DecodePlaintext(retCode, whole)
                     ELSE DecodeJson(retCode, whole)]

\* C21: the accumulated response and the result of a call are those of the
\* same bytes received as one chunk: the chunking of the body does not show.
C21_ChunkingIndependent ==
    (last.op \in Endpoints /\ last.performs = 1) =>
        LET one == AsOneChunk(last.op, last.retCode, last.chunks)
        IN  /\ api.m_curlResponse = one.response
            /\ last.outcome = one.decoded.outcome
            /\ last.result = one.decoded.result

\* C22: after a bulkReport call, whatever its outcome, no FILE opened on the
\* CSV is still open and no multipart form is still allocated.
C22_BulkReportReleasesAll ==
    last.op = "bulkReport" => (openFiles = 0 /\ DOMAIN mimes = {})

====
